---- MODULE Spec2Model ----
(***************************************************************************)
(* LenslessPiCam: mask rendering (lensless/hardware/slm.py), intensity PSF *)
(* (lensless/hardware/slm.py) and PSF / measurement conditioning           *)
(* (lensless/io.py).                                                       *)
(*                                                                         *)
(* Numbers.  Lengths (pitches, cell sizes) are integers in one common      *)
(* unit.  A pattern value v stands for v / MaxVal in [0, 1].  A rendered   *)
(* mask pixel k stands for k / 255.  Floating-point rounding is not        *)
(* modelled; 0/0 (NaN) is: an array whose every element is NaN carries the *)
(* flag nan = TRUE.                                                        *)
(***************************************************************************)
EXTENDS Integers, Sequences, FiniteSets, TLC

VARIABLES
    \* ---- get_programmable_mask -------------------------------------------
    vals,        \* the pattern: [shape, data], data in C order
    sensor,      \* [pitch, resolution]
    slm_param,   \* [pitch, cell_size, shape, has_cf, color_filter]
    rotate,      \* "None" or "180"
    flipud,      \* BOOLEAN
    i,           \* index of the next cell of the loop at slm.py:169
    mask,        \* [channel -> [row -> [col -> value]]]
    mpc,         \* "idle", "start", "loop", "quantize", "done"
    mret,        \* [status, nan]: how the call ended
    \* ---- get_intensity_psf -----------------------------------------------
    imask,       \* the caller's mask array: [channel -> [pixel -> value]]
    imask0,      \* the mask as it was when the call was made
    n_wv,        \* len(color_system.wv)
    waveprop,    \* BOOLEAN
    psfs,        \* the array allocated at slm.py:237: complex, <<re, im>>
    psfs_ref,    \* what the name psfs is bound to: "own" (that array) or "mask"
    wv_i,        \* index of the next wavelength of the loop at slm.py:259
    psf_in,      \* the returned intensity
    ipc,         \* "start", "loop", "intensity", "done"
    iret,        \* how the call ended
    \* ---- load_psf ---------------------------------------------------------
    raw,         \* the array read from the file: [shape, num, den, rad, nan]
    largs,       \* [use_3d, bg_pix, downsample, single_psf, return_float]
    psf,         \* the array being conditioned, [depth, height, width, channel]
    grayscale,   \* BOOLEAN
    bg,          \* the background: [kind, num, den, rad, nan]
    lpc,         \* "start", "bg", "resize", "collapse", "normalize", "done"
    lret,        \* how the call ended
    pass,        \* 1: the file is a raw PSF; 2: it is the PSF the first call returned
    first,       \* the PSF the first call returned
    steps,       \* the conditioning steps the call has performed, in order
    \* ---- load_data --------------------------------------------------------
    data,        \* the measurement being conditioned
    gray,        \* BOOLEAN: the argument gray
    dpc,         \* "idle", "load_psf", "bg", "resize", "normalize", "gray", "done"
    dret,        \* how the call ended
    \* ---- set_programmable_mask --------------------------------------------
    sdevice,     \* the argument device
    sshape,      \* pattern.shape
    spc,         \* "idle", "connect", "device", "shape", "save", "copy", "exec", "done"
    sret,        \* how the call ended
    local_file,  \* BOOLEAN: tmp_pattern.npy exists in the working directory
    written,     \* BOOLEAN: np.save has written the pattern
    copied,      \* BOOLEAN: scp has been run on the pattern file
    executed,    \* BOOLEAN: the set-mask command has been run on the remote host
    \* ---- download_model ---------------------------------------------------
    dl_call,     \* <<camera, dataset, model>> of the call in progress
    dl_pc,       \* "idle", "ready", "validate", "exists", "download", "done"
    dl_ret,      \* how the last call ended: "running", "ok", "ValueError", ...
    dl_path,     \* the path the last call returned
    dl_dirs,     \* the model directories that exist
    dl_count,    \* [triple -> number of times snapshot_download was invoked]
    dl_paths,    \* [triple -> the set of paths successful calls have returned]
    dl_calls     \* number of calls made

maskVars == <<vals, sensor, slm_param, rotate, flipud, i, mask, mpc, mret>>
intVars == <<imask, imask0, n_wv, waveprop, psfs, psfs_ref, wv_i, psf_in, ipc, iret>>

psfVars == <<raw, largs, psf, grayscale, bg, lpc, lret, pass, first, steps>>

dataVars == <<data, gray, dpc, dret>>

setVars == <<sdevice, sshape, spc, sret, local_file, written, copied, executed>>

dlVars == <<dl_call, dl_pc, dl_ret, dl_path, dl_dirs, dl_count, dl_paths, dl_calls>>

vars == <<maskVars, intVars, psfVars, dataVars, setVars, dlVars>>

----------------------------------------------------------------------------
(* Bounds of the model *)

\* pattern values are 0..MaxVal, standing for 0 .. 1.0
MaxVal == 2
\* patterns have at most 2 rows and MaxCells columns
MaxCells == 2
\* sensor resolutions are MaxRes - 1 and MaxRes pixels a side
MaxRes == 4
\* mask values handed to get_intensity_psf are -1..MaxMag
MaxMag == 2
\* pixel values of the raw PSF files are 0..MaxPix
MaxPix == 2
\* pixel values of the PSF and measurement files of load_data are 0..MaxDat
MaxDat == 1
\* patterns handed to set_programmable_mask have sides 1..MaxSlm
MaxSlm == 2
\* download_model is called at most MaxCalls times
MaxCalls == 3

\* quantization levels of the mask, slm.py:199
Levels == 255

----------------------------------------------------------------------------
(* Arithmetic helpers *)

Max2(a, b) == IF a >= b THEN a ELSE b
Min2(a, b) == IF a <= b THEN a ELSE b

\* ndarray.astype(int) of the float a / b, b > 0: truncation toward zero
TruncDiv(a, b) == IF a >= 0 THEN a \div b ELSE -((-a) \div b)

\* np.round(n / d), n >= 0, d > 0: round half to even
RoundHalfEven(n, d) ==
    LET q == (2 * n + d) \div (2 * d)
    IN  IF (2 * n + d) % (2 * d) = 0 /\ q % 2 = 1 THEN q - 1 ELSE q

\* Python's normalisation of one slice bound against an axis of length len
SliceBound(x, len) == IF x < 0 THEN Max2(x + len, 0) ELSE Min2(x, len)

\* the indices selected by a[start:stop] on an axis of length len
PySlice(start, stop, len) ==
    { k \in 0..(len - 1) : SliceBound(start, len) <= k /\ k < SliceBound(stop, len) }

\* numpy's rule for assigning a value axis of length v to a target axis of length t
Broadcastable(v, t) == v = t \/ v = 1

Prod(s) == IF Len(s) = 0 THEN 1
           ELSE IF Len(s) = 1 THEN s[1]
           ELSE IF Len(s) = 2 THEN s[1] * s[2]
           ELSE s[1] * s[2] * s[3]

----------------------------------------------------------------------------
(* get_programmable_mask: the values derived from the arguments *)

\* slm.py:127  slm_vals = vals.reshape((-1, vals.shape[-1]), order="F")
\* n_active_slm_pixels = slm_vals.shape (slm.py:133)
NActive(v) == <<Prod(v.shape) \div v.shape[Len(v.shape)], v.shape[Len(v.shape)]>>

\* the number of leading (channel) indices folded into the rows by the reshape
LeadDim(v) == IF Len(v.shape) = 3 THEN v.shape[1] ELSE 1
InnerRows(v) == IF Len(v.shape) = 3 THEN v.shape[2] ELSE v.shape[1]

\* slm_vals[row, col] after the Fortran-order reshape: the first index runs fastest
SlmValsAt(v, row, col) ==
    LET K == LeadDim(v)
        R == InnerRows(v)
        C == v.shape[Len(v.shape)]
    IN  v.data[(row % K) * R * C + (row \div K) * C + col + 1]

\* slm.py:167  slm_vals_flat = slm_vals.reshape(-1)
SlmValsFlat(v, idx) == SlmValsAt(v, idx \div NActive(v)[2], idx % NActive(v)[2])

\* slm.py:142-143  color_filter = np.flipud(color_filter)
ColorFilter(p, fl) ==
    IF fl THEN [r \in 1..Len(p.color_filter) |->
                   p.color_filter[Len(p.color_filter) + 1 - r]]
    ELSE p.color_filter

\* slm.py:136  n_color_filter = np.prod(slm_param["color_filter"].shape[:2])
NColorFilter(p) == Len(p.color_filter) * Len(p.color_filter[1])

\* the channel count of one filter entry: color_filter.shape[2]
NFilterChannels(p) == Len(p.color_filter[1][1])

\* slm.py:145-150  cf[idx]: the filter table tiled over the cells
CfAt(p, fl, v, idx) ==
    LET f   == ColorFilter(p, fl)
        row == idx \div NActive(v)[2]
        col == idx % NActive(v)[2]
    IN  f[(row % Len(f)) + 1][(col % Len(f[1])) + 1]

\* slm.py:138  centers = get_centers(n_active_slm_pixels, pixel_pitch):
\* twice the centre of cell k of n along one axis, the grid centred at 0
Center2(k, n, pitch) == (2 * k - n + 1) * pitch

\* slm.py:171  _center_pixel = (_center / d1 + sensor.resolution / 2).astype(int)
CenterPixel(k, n, pitch, d1, res) ==
    TruncDiv(Center2(k, n, pitch) + res * d1, 2 * d1)

\* slm.py:158  _height_pixel, _width_pixel = (cell_size / d1).astype(int)
HeightPixel(p, s) == TruncDiv(p.cell_size[1], s.pitch[1])
WidthPixel(p, s) == TruncDiv(p.cell_size[2], s.pitch[2])

\* slm.py:172-175  _center_top_left_pixel
TopLeftRow(p, s, v, idx) ==
    CenterPixel(idx \div NActive(v)[2], NActive(v)[1], p.pitch[1], s.pitch[1],
                s.resolution[1])
    - (HeightPixel(p, s) \div 2)
TopLeftCol(p, s, v, idx) ==
    CenterPixel(idx % NActive(v)[2], NActive(v)[2], p.pitch[2], s.pitch[2],
                s.resolution[2])
    + 1 - (WidthPixel(p, s) \div 2)

\* the footprint as computed, before any slicing: rows and columns
FootRows(p, s, v, idx) ==
    TopLeftRow(p, s, v, idx) .. (TopLeftRow(p, s, v, idx) + HeightPixel(p, s) - 1)
FootCols(p, s, v, idx) ==
    TopLeftCol(p, s, v, idx) .. (TopLeftCol(p, s, v, idx) + WidthPixel(p, s) - 1)

\* slm.py:185-189  the rows and columns the slices of the assignment select
SliceRows(p, s, v, idx) ==
    PySlice(TopLeftRow(p, s, v, idx), TopLeftRow(p, s, v, idx) + HeightPixel(p, s),
            s.resolution[1])
SliceCols(p, s, v, idx) ==
    PySlice(TopLeftCol(p, s, v, idx), TopLeftCol(p, s, v, idx) + WidthPixel(p, s),
            s.resolution[2])

\* slm.py:185-191  numpy accepts the assignment of slm_vals_flat[i] * _rect
AssignOk(p, s, v, idx) ==
    /\ Broadcastable(HeightPixel(p, s), Cardinality(SliceRows(p, s, v, idx)))
    /\ Broadcastable(WidthPixel(p, s), Cardinality(SliceCols(p, s, v, idx)))
    /\ Broadcastable(NFilterChannels(p), NColorFilter(p))

\* slm.py:177-191  the value written to channel ch: slm_vals_flat[i] * _rect[ch]
RectValue(p, fl, v, idx, ch) ==
    LET w == CfAt(p, fl, v, idx)
    IN  SlmValsFlat(v, idx) * (IF Len(w) = 1 THEN w[1] ELSE w[ch + 1])

\* slm.py:166  mask = np.zeros((n_color_filter,) + tuple(sensor.resolution))
ZeroMask(nch, res) ==
    [ch \in 0..(nch - 1) |-> [r \in 0..(res[1] - 1) |-> [c \in 0..(res[2] - 1) |-> 0]]]

\* the block is added to the pixels in place of being assigned
PlaceAccumulate(m, p, s, fl, v, idx) ==
    LET rows == SliceRows(p, s, v, idx)
        cols == SliceCols(p, s, v, idx)
    IN  [ch \in DOMAIN m |->
          [r \in DOMAIN m[ch] |->
            [c \in DOMAIN m[ch][r] |->
               IF r \in rows /\ c \in cols
               THEN m[ch][r][c] + RectValue(p, fl, v, idx, ch)
               ELSE m[ch][r][c]]]]

\* slm.py:185-191  one assignment of the loop
PlaceInto(m, p, s, fl, v, idx) ==
    LET rows == SliceRows(p, s, v, idx)
        cols == SliceCols(p, s, v, idx)
    IN  [ch \in DOMAIN m |->
          [r \in DOMAIN m[ch] |->
            [c \in DOMAIN m[ch][r] |->
               IF r \in rows /\ c \in cols
               THEN RectValue(p, fl, v, idx, ch)
               ELSE m[ch][r][c]]]]

\* np.max(mask), slm.py:198
SetMax(S) == IF S = {} THEN 0
             ELSE LET x == CHOOSE y \in S : \A z \in S : z <= y IN x
MaskMax(m) ==
    SetMax({ m[ch][r][c] : ch \in DOMAIN m, r \in DOMAIN m[0], c \in DOMAIN m[0][0] })

\* slm.py:198-199  mask = mask / np.max(mask); mask = np.round(mask * 255) / 255.0
\* (the result in units of 1/255; only used when the maximum is not 0)
QuantizeMask(m) ==
    LET mx == MaskMax(m)
    IN  [ch \in DOMAIN m |->
          [r \in DOMAIN m[ch] |->
            [c \in DOMAIN m[ch][r] |-> RoundHalfEven(Levels * m[ch][r][c], mx)]]]

\* slm.py:206  rotate_func(mask, axes=(2, 1), angle=rotate, reshape=False),
\* for the half turn: a rigid rotation about the image centre
RotateMask(m, rot, res) ==
    IF rot = "None" THEN m
    ELSE [ch \in DOMAIN m |->
           [r \in DOMAIN m[ch] |->
             [c \in DOMAIN m[ch][r] |-> m[ch][res[1] - 1 - r][res[2] - 1 - c]]]]

----------------------------------------------------------------------------
(* get_programmable_mask: the inputs the model draws *)

\* color filter tables: rows x cols x channels
Filter1 == << << <<1>> >> >>
Filter2 == << << <<0, 1>> >>, << <<1, 0>> >> >>

\* the device shape SLMParam.SHAPE of every device of the model
DeviceShape == <<1, MaxCells>>

Devices ==
    { [pitch |-> <<pp, pp>>, cell_size |-> <<cs, cs>>, shape |-> DeviceShape,
       has_cf |-> f[1], color_filter |-> f[2]] :
         pp \in {1, 2, 4, 8}, cs \in {1, 2},
         f \in { <<FALSE, <<>> >>, <<TRUE, Filter1>>, <<TRUE, Filter2>> } }

Sensors ==
    { [pitch |-> <<d, d>>, resolution |-> <<n, n>>] :
         d \in {1, 2}, n \in (MaxRes - 1)..MaxRes }

PatternsOfShape(sh) == { [shape |-> sh, data |-> d] : d \in [1..Prod(sh) -> 0..MaxVal] }

Patterns ==
    UNION { PatternsOfShape(<<r, c>>) : r \in 1..2, c \in 1..MaxCells }
    \cup PatternsOfShape(<<2, 1, MaxCells>>)

\* Scenario A of the specification: 8 x 8 cells, 64 x 64 pixels, 8 x 8 blocks
ScenarioADevice ==
    [pitch |-> <<8, 8>>, cell_size |-> <<8, 8>>, shape |-> <<8, 8>>,
     has_cf |-> TRUE, color_filter |-> Filter1]
ScenarioASensor == [pitch |-> <<1, 1>>, resolution |-> <<64, 64>>]
ScenarioAPattern ==
    [shape |-> <<8, 8>>, data |-> [k \in 1..64 |-> IF k = 1 THEN MaxVal ELSE 0]]

\* the pattern shape the device expects: its shape, with the channel count in
\* front when the device is colour-filtered
ExpectedShape(p) ==
    IF p.has_cf THEN <<NFilterChannels(p)>> \o p.shape ELSE p.shape

----------------------------------------------------------------------------
(* get_programmable_mask: the state machine *)

\* the variables of get_programmable_mask while another function is modelled
MaskIdle ==
    /\ vals = [shape |-> <<1, 1>>, data |-> <<0>>]
    /\ sensor = [pitch |-> <<1, 1>>, resolution |-> <<1, 1>>]
    /\ slm_param = [pitch |-> <<1, 1>>, cell_size |-> <<1, 1>>, shape |-> <<1, 1>>,
                    has_cf |-> FALSE, color_filter |-> <<>>]
    /\ rotate = "None"
    /\ flipud = FALSE
    /\ i = 0
    /\ mask = << >>
    /\ mpc = "idle"
    /\ mret = [status |-> "idle", nan |-> FALSE]

MaskArgs ==
    /\ \/ /\ vals \in Patterns
          /\ sensor \in Sensors
          /\ slm_param \in Devices
          /\ rotate \in {"None", "180"}
          /\ flipud \in BOOLEAN
       \/ /\ vals = ScenarioAPattern
          /\ sensor = ScenarioASensor
          /\ slm_param = ScenarioADevice
          /\ rotate = "None"
          /\ flipud = FALSE
    /\ i = 0
    /\ mask = << >>
    /\ mpc = "start"
    /\ mret = [status |-> "running", nan |-> FALSE]

\* slm.py:117-167  up to the loop; slm_param["color_filter"] of a device
\* without a colour filter raises KeyError at slm.py:136
Prepare ==
    /\ mpc = "start"
    /\ IF slm_param.has_cf
       THEN /\ mask' = ZeroMask(NColorFilter(slm_param), sensor.resolution)
            /\ mpc' = "loop"
            /\ mret' = mret
       ELSE /\ mask' = mask
            /\ mpc' = "done"
            /\ mret' = [status |-> "KeyError", nan |-> FALSE]
    /\ UNCHANGED <<vals, sensor, slm_param, rotate, flipud, i>>
    /\ UNCHANGED <<intVars, psfVars, dataVars, setVars, dlVars>>

\* slm.py:169-191  one iteration of the loop over the centers
PlaceCell ==
    /\ mpc = "loop"
    /\ i < Prod(NActive(vals))
    /\ IF AssignOk(slm_param, sensor, vals, i)
       THEN /\ mask' = PlaceInto(mask, slm_param, sensor, flipud, vals, i)
            /\ i' = i + 1
            /\ mpc' = "loop"
            /\ mret' = mret
       ELSE /\ mask' = mask
            /\ i' = i
            /\ mpc' = "done"
            /\ mret' = [status |-> "ValueError", nan |-> FALSE]
    /\ UNCHANGED <<vals, sensor, slm_param, rotate, flipud>>
    /\ UNCHANGED <<intVars, psfVars, dataVars, setVars, dlVars>>

\* slm.py:193-208  normalise by the maximum, quantize, rotate, return
Quantize ==
    /\ mpc = "loop"
    /\ i = Prod(NActive(vals))
    /\ IF MaskMax(mask) = 0
       THEN /\ mask' = mask
            /\ mret' = [status |-> "ok", nan |-> TRUE]
       ELSE /\ mask' = RotateMask(QuantizeMask(mask), rotate, sensor.resolution)
            /\ mret' = [status |-> "ok", nan |-> FALSE]
    /\ mpc' = "done"
    /\ UNCHANGED <<vals, sensor, slm_param, rotate, flipud, i>>
    /\ UNCHANGED <<intVars, psfVars, dataVars, setVars, dlVars>>

MaskNext == Prepare \/ PlaceCell \/ Quantize

----------------------------------------------------------------------------
(* get_intensity_psf *)

\* the shapes (channels, pixels per channel) of the masks of the model
IntShapes == { <<1, 2>>, <<2, 1>> }

IntMasks ==
    UNION { [0..(sh[1] - 1) -> [0..(sh[2] - 1) -> -1..MaxMag]] : sh \in IntShapes }

\* the values a pixel of the field returned by angular_spectrum may take
FieldValues == { <<re, im>> : re \in -1..1, im \in -1..1 }

\* slm.py:237  psfs = np.zeros(mask.shape, dtype=ctype)
ZeroPsfs(m) == [ch \in DOMAIN m |-> [px \in DOMAIN m[ch] |-> <<0, 0>>]]

\* slm.py:237  the array the name psfs is bound to after the allocation
AllocRef == "own"

\* slm.py:271  psfs = mask: the name is rebound, nothing is copied
BypassRef == "mask"

\* the array the name psfs denotes; a real mask value v is the complex <<v, 0>>
Deref(ref, own, m) ==
    IF ref = "own" THEN own
    ELSE [ch \in DOMAIN m |-> [px \in DOMAIN m[ch] |-> <<m[ch][px], 0>>]]

\* the field itself is returned, its real part, where the intensity is meant
FieldReturned(a) == [ch \in DOMAIN a |-> [px \in DOMAIN a[ch] |-> a[ch][px][1]]]

\* slm.py:274-277  np.square(np.abs(psfs))
SquaredMagnitude(a) ==
    [ch \in DOMAIN a |-> [px \in DOMAIN a[ch] |->
        a[ch][px][1] * a[ch][px][1] + a[ch][px][2] * a[ch][px][2]]]

\* slm.py:241-243  the assertion of the waveprop branch
WavelengthsMatch(n, m) == n = Cardinality(DOMAIN m)

IntIdle ==
    /\ imask = << >>
    /\ imask0 = << >>
    /\ n_wv = 0
    /\ waveprop = FALSE
    /\ psfs = << >>
    /\ psfs_ref = "none"
    /\ wv_i = 0
    /\ psf_in = << >>
    /\ ipc = "idle"
    /\ iret = "idle"

IntArgs ==
    /\ imask \in IntMasks
    /\ imask0 = imask
    /\ n_wv \in 1..2
    /\ waveprop \in BOOLEAN
    /\ psfs = << >>
    /\ psfs_ref = "none"
    /\ wv_i = 0
    /\ psf_in = << >>
    /\ ipc = "start"
    /\ iret = "running"

\* slm.py:221-243 and 269-271  allocate psfs, then either check the wavelengths
\* (waveprop) or rebind psfs to the mask
IntensityStart ==
    /\ ipc = "start"
    /\ psfs' = ZeroPsfs(imask)
    /\ IF waveprop
       THEN IF WavelengthsMatch(n_wv, imask)
            THEN /\ psfs_ref' = AllocRef
                 /\ ipc' = "loop"
                 /\ iret' = iret
            ELSE /\ psfs_ref' = AllocRef
                 /\ ipc' = "done"
                 /\ iret' = "AssertionError"
       ELSE /\ psfs_ref' = BypassRef
            /\ ipc' = "intensity"
            /\ iret' = iret
    /\ UNCHANGED <<imask, imask0, n_wv, waveprop, wv_i, psf_in>>
    /\ UNCHANGED <<maskVars, psfVars, dataVars, setVars, dlVars>>

\* slm.py:259-267  psfs[i], _, _ = angular_spectrum(u_in=u_in[i], ...): the field
\* of one wavelength is written into the array psfs denotes
PropagateChannel ==
    /\ ipc = "loop"
    /\ wv_i < n_wv
    /\ \E field \in [DOMAIN imask[wv_i] -> FieldValues] :
          IF psfs_ref = "own"
          THEN /\ psfs' = [psfs EXCEPT ![wv_i] = field]
               /\ imask' = imask
          ELSE /\ psfs' = psfs
               /\ imask' = [imask EXCEPT ![wv_i] = [px \in DOMAIN field |-> field[px][1]]]
    /\ wv_i' = wv_i + 1
    /\ UNCHANGED <<imask0, n_wv, waveprop, psfs_ref, psf_in, ipc, iret>>
    /\ UNCHANGED <<maskVars, psfVars, dataVars, setVars, dlVars>>

\* the loop at slm.py:259 is over
PropagateDone ==
    /\ ipc = "loop"
    /\ wv_i = n_wv
    /\ ipc' = "intensity"
    /\ UNCHANGED <<imask, imask0, n_wv, waveprop, psfs, psfs_ref, wv_i, psf_in, iret>>
    /\ UNCHANGED <<maskVars, psfVars, dataVars, setVars, dlVars>>

\* slm.py:273-279  psf_in = np.square(np.abs(psfs)); return psf_in
Intensity ==
    /\ ipc = "intensity"
    /\ psf_in' = SquaredMagnitude(Deref(psfs_ref, psfs, imask))
    /\ ipc' = "done"
    /\ iret' = "ok"
    /\ UNCHANGED <<imask, imask0, n_wv, waveprop, psfs, psfs_ref, wv_i>>
    /\ UNCHANGED <<maskVars, psfVars, dataVars, setVars, dlVars>>

IntNext == IntensityStart \/ PropagateChannel \/ PropagateDone \/ Intensity

----------------------------------------------------------------------------
(* load_psf: arrays *)

(* An array is [shape, num, den, rad, nan]: the element at index x is           *)
(* num[x] / (den * sqrt(rad)), den > 0, rad > 0; nan = TRUE when every element   *)
(* is NaN.  An integer image has den = 1 and rad = 1.                            *)

IdxSet(sh) ==
    IF Len(sh) = 2 THEN { <<a, b>> : a \in 0..(sh[1] - 1), b \in 0..(sh[2] - 1) }
    ELSE IF Len(sh) = 3
    THEN { <<a, b, c>> : a \in 0..(sh[1] - 1), b \in 0..(sh[2] - 1), c \in 0..(sh[3] - 1) }
    ELSE { <<a, b, c, d>> : a \in 0..(sh[1] - 1), b \in 0..(sh[2] - 1),
                            c \in 0..(sh[3] - 1), d \in 0..(sh[4] - 1) }

RECURSIVE SumOver(_, _)
SumOver(f, S) ==
    IF S = {} THEN 0
    ELSE LET x == CHOOSE y \in S : TRUE IN f[x] + SumOver(f, S \ {x})

\* the sum of the squares of the numerators of an array
SumSq(a) == SumOver([x \in DOMAIN a.num |-> a.num[x] * a.num[x]], DOMAIN a.num)

NanArray(sh) == [shape |-> sh, num |-> [x \in IdxSet(sh) |-> 0], den |-> 1, rad |-> 1,
                 nan |-> TRUE]

\* io.py:186-206  cast and reshape to [depth, height, width, channel];
\* the assertion at io.py:203 fails for an array that is not 4-D by then
ReshapeOk(a, use_3d) ==
    IF use_3d THEN Len(a.shape) \in {3, 4} ELSE Len(a.shape) \in {2, 3}

\* io.py:189-201  grayscale
IsGrayscale(a, use_3d) == IF use_3d THEN Len(a.shape) = 3 ELSE Len(a.shape) # 3

\* io.py:189-201  psf[:, :, :, np.newaxis], psf[np.newaxis, ...]
To4D(a, use_3d) ==
    LET sh == IF use_3d
              THEN (IF Len(a.shape) = 3 THEN a.shape \o <<1>> ELSE a.shape)
              ELSE (IF Len(a.shape) = 3 THEN <<1>> \o a.shape
                    ELSE <<1>> \o a.shape \o <<1>>)
        src(x) == IF use_3d
                  THEN (IF Len(a.shape) = 3 THEN <<x[1], x[2], x[3]>> ELSE x)
                  ELSE (IF Len(a.shape) = 3 THEN <<x[2], x[3], x[4]>>
                        ELSE <<x[2], x[3]>>)
    IN  [shape |-> sh, num |-> [x \in IdxSet(sh) |-> a.num[src(x)]],
         den |-> a.den, rad |-> a.rad, nan |-> a.nan]

\* the mean taken over the whole image in place of the corner region
WholeImage(a, bg_pix, chs) == { x \in IdxSet(a.shape) : x[4] \in chs }

\* io.py:215 and 222  the elements of psf[:, lo:hi, lo:hi, chs]
BgRegion(a, bg_pix, chs) ==
    { x \in IdxSet(a.shape) :
         /\ x[2] \in PySlice(bg_pix[1], bg_pix[2], a.shape[2])
         /\ x[3] \in PySlice(bg_pix[1], bg_pix[2], a.shape[3])
         /\ x[4] \in chs }

AllChannels(a) == 0..(a.shape[4] - 1)

\* the number of elements np.mean averages at io.py:215 and 222
BgCount(a, grayscale_, bg_pix) ==
    Cardinality(BgRegion(a, bg_pix, IF grayscale_ THEN AllChannels(a) ELSE {0}))

\* io.py:208-227  the background; bg_pix = << >> stands for None
Background(a, grayscale_, bg_pix) ==
    IF bg_pix = << >>
    THEN [kind |-> "vector", num |-> [k \in 1..Len(a.shape) |-> 0], den |-> 1, rad |-> 1,
          nan |-> FALSE]
    ELSE LET n == BgCount(a, grayscale_, bg_pix)
         IN  IF grayscale_
             THEN [kind |-> "scalar",
                   num |-> <<SumOver(a.num, BgRegion(a, bg_pix, AllChannels(a)))>>,
                   den |-> Max2(n, 1) * a.den, rad |-> a.rad, nan |-> a.nan \/ n = 0]
             ELSE [kind |-> "vector",
                   num |-> [k \in 1..3 |-> SumOver(a.num, BgRegion(a, bg_pix, {k - 1}))],
                   den |-> Max2(n, 1) * a.den, rad |-> a.rad, nan |-> a.nan \/ n = 0]

\* io.py:226  np.clip(psf, a_min=0, a_max=psf.max())
Clip0(x) == IF x < 0 THEN 0 ELSE x

\* io.py:216, 223 and 226  psf -= bg, then the clip; nothing when bg_pix is None.
\* Every element is brought to the denominator of the mean.
SubtractAndClip(a, grayscale_, bg_pix) ==
    IF bg_pix = << >> THEN a
    ELSE LET n == BgCount(a, grayscale_, bg_pix)
             b == Background(a, grayscale_, bg_pix)
         IN  IF b.nan THEN NanArray(a.shape)
             ELSE [shape |-> a.shape,
                   num |-> [x \in IdxSet(a.shape) |->
                              IF grayscale_ THEN Clip0(n * a.num[x] - b.num[1])
                              ELSE IF x[4] < 3 THEN Clip0(n * a.num[x] - b.num[x[4] + 1])
                              ELSE Clip0(n * a.num[x])],
                   den |-> n * a.den, rad |-> a.rad, nan |-> FALSE]

\* io.py:221  for i in range(3): psf[:, :, :, i] needs three channels
BackgroundOk(a, grayscale_, bg_pix) == bg_pix = << >> \/ grayscale_ \/ a.shape[4] >= 3

\* resize: the length source pixel s and target pixel t share, n_src source pixels
\* resampled to n_dst, in units of 1 / (n_src * n_dst) of the axis
Overlap(s, t, n_src, n_dst) ==
    Max2(0, Min2((s + 1) * n_dst, (t + 1) * n_src) - Max2(s * n_dst, t * n_src))

\* resize(img, shape): area-preserving resampling of height and width
AreaResize(a, nh, nw) ==
    IF nh = a.shape[2] /\ nw = a.shape[3] THEN a
    ELSE LET sh == <<a.shape[1], nh, nw, a.shape[4]>>
             H  == a.shape[2]
             W  == a.shape[3]
             src(x) == { <<x[1], r, c, x[4]>> : r \in 0..(H - 1), c \in 0..(W - 1) }
         IN  [shape |-> sh,
              num |-> [x \in IdxSet(sh) |->
                         SumOver([y \in src(x) |->
                                     Overlap(y[2], x[2], H, nh) * Overlap(y[3], x[3], W, nw)
                                     * a.num[y]], src(x))],
              den |-> a.den * H * W, rad |-> a.rad, nan |-> a.nan]

\* io.py:230  resize(psf, shape=shape, factor=1/downsample): the new height and width
ResizedDim(n, downsample) == n \div downsample

\* io.py:230  1/downsample raises for None (0 here); a dimension of 0 is refused
ResizeOk(a, downsample) ==
    /\ downsample >= 1
    /\ ResizedDim(a.shape[2], downsample) >= 1
    /\ ResizedDim(a.shape[3], downsample) >= 1

\* io.py:232-240  single_psf: np.sum(psf, 3), then psf[:, :, :, np.newaxis]
Collapse(a, single_psf) ==
    IF single_psf /\ a.shape[4] > 1
    THEN LET sh == <<a.shape[1], a.shape[2], a.shape[3], 1>>
         IN  [shape |-> sh,
              num |-> [x \in IdxSet(sh) |->
                         SumOver([ch \in AllChannels(a) |-> a.num[<<x[1], x[2], x[3], ch>>]],
                                 AllChannels(a))],
              den |-> a.den, rad |-> a.rad, nan |-> a.nan]
    ELSE a

\* the division by the maximum (io.py:244, commented out) in place of the norm
DivideByMax(a) ==
    LET mx == SetMax({ a.num[x] : x \in DOMAIN a.num })
    IN  IF a.nan \/ mx = 0 THEN NanArray(a.shape)
        ELSE [shape |-> a.shape, num |-> a.num, den |-> mx, rad |-> 1, nan |-> FALSE]

\* io.py:245  psf /= np.linalg.norm(psf.ravel()): x / (d sqrt(r)) divided by
\* sqrt(sum x^2) / (d sqrt(r)); 0/0 is NaN
DivideByNorm(a) ==
    IF a.nan \/ SumSq(a) = 0 THEN NanArray(a.shape)
    ELSE [shape |-> a.shape, num |-> a.num, den |-> 1, rad |-> SumSq(a), nan |-> FALSE]

\* io.py:247  psf.astype(original_dtype): an integer file truncates, a float file
\* (rad > 1 or den > 1 in the file) keeps the values
AsOriginal(a, file) ==
    IF file.den = 1 /\ file.rad = 1 /\ ~a.nan
    THEN [shape |-> a.shape, num |-> [x \in IdxSet(a.shape) |-> a.num[x] \div a.den],
          den |-> 1, rad |-> 1, nan |-> FALSE]
    ELSE a

\* io.py:242-247  normalize
Normalize(a, return_float, file) ==
    IF return_float THEN DivideByNorm(a) ELSE AsOriginal(a, file)

\* the returned PSF written to a .npy file: a single channel is stored as
\* [depth, height, width], three channels as [depth, height, width, channel]
AsFile(a) ==
    IF a.shape[4] = 1
    THEN [shape |-> <<a.shape[1], a.shape[2], a.shape[3]>>,
          num |-> [x \in IdxSet(<<a.shape[1], a.shape[2], a.shape[3]>>) |->
                      a.num[<<x[1], x[2], x[3], 0>>]],
          den |-> a.den, rad |-> a.rad, nan |-> a.nan]
    ELSE a

----------------------------------------------------------------------------
(* load_psf: the inputs the model draws *)

Image(sh, f) == [shape |-> sh, num |-> f, den |-> 1, rad |-> 1, nan |-> FALSE]

ImagesOfShape(sh) == { Image(sh, f) : f \in [IdxSet(sh) -> 0..MaxPix] }

\* image files: grayscale 2 x 2, RGB 1 x 2 x 3
ImageFiles == ImagesOfShape(<<2, 2>>) \cup ImagesOfShape(<<1, 2, 3>>)

\* .npy files (use_3d): two depths of 1 x 2, single channel
NpyFiles == ImagesOfShape(<<2, 1, 2>>)

\* bg_pix: << >> is None
BgPixChoices == { << >>, <<0, 1>>, <<0, 2>>, <<1, 2>> }

PsfArgs ==
    { [use_3d |-> FALSE, bg_pix |-> b, downsample |-> ds, single_psf |-> sp,
       return_float |-> rf] :
         b \in BgPixChoices, ds \in 1..2, sp \in BOOLEAN, rf \in BOOLEAN }

----------------------------------------------------------------------------
(* load_psf: the state machine *)

NoArray == [shape |-> <<0, 0, 0, 0>>, num |-> << >>, den |-> 1, rad |-> 1, nan |-> FALSE]
NoBg == [kind |-> "none", num |-> << >>, den |-> 1, rad |-> 1, nan |-> FALSE]

PsfIdle ==
    /\ raw = NoArray
    /\ largs = [use_3d |-> FALSE, bg_pix |-> << >>, downsample |-> 1,
                single_psf |-> FALSE, return_float |-> TRUE]
    /\ psf = NoArray
    /\ grayscale = FALSE
    /\ bg = NoBg
    /\ lpc = "idle"
    /\ lret = "idle"
    /\ pass = 0
    /\ first = NoArray
    /\ steps = << >>

PsfCall ==
    /\ \/ /\ raw \in ImageFiles
          /\ largs \in PsfArgs
       \/ /\ raw \in NpyFiles
          /\ largs \in { [a EXCEPT !.use_3d = TRUE] : a \in PsfArgs }
    /\ psf = NoArray
    /\ grayscale = FALSE
    /\ bg = NoBg
    /\ lpc = "start"
    /\ lret = "running"
    /\ pass = 1
    /\ first = NoArray
    /\ steps = << >>

\* the background is taken after the resize, not before it
StepAfterSwapped(pc) ==
    IF pc = "start" THEN "resize"
    ELSE IF pc = "resize" THEN "bg"
    ELSE IF pc = "bg" THEN "collapse"
    ELSE IF pc = "collapse" THEN "normalize"
    ELSE "done"

\* io.py:186-252  the block of load_psf that follows each block: cast and reshape
\* (186-206), background (208-227), resize (229-230), single_psf (232-240),
\* normalize and return (242-252)
StepAfter(pc) ==
    IF pc = "start" THEN "bg"
    ELSE IF pc = "bg" THEN "resize"
    ELSE IF pc = "resize" THEN "collapse"
    ELSE IF pc = "collapse" THEN "normalize"
    ELSE "done"

\* io.py:170-206  load, cast, reshape to [depth, height, width, channel]
CastReshape ==
    /\ lpc = "start"
    /\ IF ReshapeOk(raw, largs.use_3d)
       THEN /\ psf' = To4D(raw, largs.use_3d)
            /\ grayscale' = IsGrayscale(raw, largs.use_3d)
            /\ lpc' = StepAfter("start")
            /\ lret' = lret
            /\ steps' = Append(steps, "cast")
       ELSE /\ psf' = psf
            /\ grayscale' = grayscale
            /\ lpc' = "done"
            /\ lret' = "AssertionError"
            /\ steps' = steps
    /\ UNCHANGED <<raw, largs, bg, pass, first>>
    /\ UNCHANGED <<maskVars, intVars, dataVars, setVars, dlVars>>

\* io.py:208-227  background, subtraction, clip
SubtractBackground ==
    /\ lpc = "bg"
    /\ IF BackgroundOk(psf, grayscale, largs.bg_pix)
       THEN /\ bg' = Background(psf, grayscale, largs.bg_pix)
            /\ psf' = SubtractAndClip(psf, grayscale, largs.bg_pix)
            /\ lpc' = StepAfter("bg")
            /\ lret' = lret
            /\ steps' = Append(steps, "bg")
       ELSE /\ bg' = bg
            /\ psf' = psf
            /\ lpc' = "done"
            /\ lret' = "IndexError"
            /\ steps' = steps
    /\ UNCHANGED <<raw, largs, grayscale, pass, first>>
    /\ UNCHANGED <<maskVars, intVars, dataVars, setVars, dlVars>>

\* io.py:229-230  resize
ResizePsf ==
    /\ lpc = "resize"
    /\ IF ResizeOk(psf, largs.downsample)
       THEN /\ psf' = AreaResize(psf, ResizedDim(psf.shape[2], largs.downsample),
                                 ResizedDim(psf.shape[3], largs.downsample))
            /\ lpc' = StepAfter("resize")
            /\ lret' = lret
            /\ steps' = Append(steps, "resize")
       ELSE /\ psf' = psf
            /\ lpc' = "done"
            /\ lret' = "ResizeError"
            /\ steps' = steps
    /\ UNCHANGED <<raw, largs, grayscale, bg, pass, first>>
    /\ UNCHANGED <<maskVars, intVars, dataVars, setVars, dlVars>>

\* io.py:232-240  single_psf
CollapseChannels ==
    /\ lpc = "collapse"
    /\ psf' = Collapse(psf, largs.single_psf)
    /\ lpc' = StepAfter("collapse")
    /\ steps' = Append(steps, "collapse")
    /\ UNCHANGED <<raw, largs, grayscale, bg, lret, pass, first>>
    /\ UNCHANGED <<maskVars, intVars, dataVars, setVars, dlVars>>

\* io.py:242-252  normalize and return
NormalizeReturn ==
    /\ lpc = "normalize"
    /\ psf' = Normalize(psf, largs.return_float, raw)
    /\ lpc' = StepAfter("normalize")
    /\ lret' = "ok"
    /\ steps' = Append(steps, "normalize")
    /\ UNCHANGED <<raw, largs, grayscale, bg, pass, first>>
    /\ UNCHANGED <<maskVars, intVars, dataVars, setVars, dlVars>>

\* the PSF a first call returned as a float array is stored and load_psf is
\* called on it, with the same corner region, downsample = 1 and no channel sum
LoadAgain ==
    /\ lpc = "done"
    /\ lret = "ok"
    /\ pass = 1
    /\ largs.return_float
    /\ ~psf.nan
    /\ first' = psf
    /\ raw' = AsFile(psf)
    /\ largs' = [use_3d |-> TRUE, bg_pix |-> largs.bg_pix, downsample |-> 1,
                 single_psf |-> FALSE, return_float |-> TRUE]
    /\ psf' = NoArray
    /\ grayscale' = FALSE
    /\ bg' = NoBg
    /\ lpc' = "start"
    /\ lret' = "running"
    /\ pass' = 2
    /\ steps' = << >>
    /\ UNCHANGED <<maskVars, intVars, dataVars, setVars, dlVars>>

----------------------------------------------------------------------------
(* load_data: load_psf, then the measurement *)

\* io.py:354  data -= bg: a scalar always subtracts; a vector is broadcast against
\* the last axis of data, which must have its length
SubtractOk(d, b) == b.kind = "scalar" \/ Len(b.num) = d.shape[Len(d.shape)]

\* io.py:354-355  data -= bg, np.clip(data, a_min=0, a_max=data.max())
SubtractBg(d, b) ==
    IF b.nan THEN NanArray(d.shape)
    ELSE [shape |-> d.shape,
          num |-> [x \in IdxSet(d.shape) |->
                     Clip0(b.den * d.num[x]
                           - d.den * (IF b.kind = "scalar" THEN b.num[1]
                                      ELSE b.num[x[Len(x)] + 1]))],
          den |-> b.den * d.den, rad |-> d.rad, nan |-> d.nan]

\* io.py:357-360  data[np.newaxis, :, :, :] or data[np.newaxis, :, :, np.newaxis]
DataTo4D(d) == To4D(d, FALSE)

\* io.py:362-364  resize(data, shape=psf.shape) when the shapes differ: height and
\* width become the PSF's, depth and channels stay
ResizeToPsf(d, p) == IF d.shape = p.shape THEN d ELSE AreaResize(d, p.shape[2], p.shape[3])

\* rgb2gray: the weights of red, green and blue, in thousandths
GrayWeights == <<299, 587, 114>>

\* rgb2gray contracts the channel axis with three weights
GrayOk(a) == a.shape[4] = Len(GrayWeights)

\* io.py:368-369  rgb2gray: the weighted sum of the three channels
Rgb2Gray(a) ==
    LET sh == <<a.shape[1], a.shape[2], a.shape[3], 1>>
    IN  [shape |-> sh,
         num |-> [x \in IdxSet(sh) |->
                    GrayWeights[1] * a.num[<<x[1], x[2], x[3], 0>>]
                    + GrayWeights[2] * a.num[<<x[1], x[2], x[3], 1>>]
                    + GrayWeights[3] * a.num[<<x[1], x[2], x[3], 2>>]],
         den |-> (GrayWeights[1] + GrayWeights[2] + GrayWeights[3]) * a.den,
         rad |-> a.rad, nan |-> a.nan]

DataImagesOfShape(sh) == { Image(sh, f) : f \in [IdxSet(sh) -> 0..MaxDat] }

\* PSF files of load_data: grayscale 2 x 2, RGB 1 x 2 x 3
DataPsfImages == DataImagesOfShape(<<2, 2>>) \cup DataImagesOfShape(<<1, 2, 3>>)

\* PSF files of load_data named .npy: two depths of 1 x 2
DataPsfNpy == DataImagesOfShape(<<2, 1, 2>>)

\* measurement files: grayscale 2 x 2, RGB 1 x 1 x 3
DataFiles == DataImagesOfShape(<<2, 2>>) \cup DataImagesOfShape(<<1, 1, 3>>)

DataIdle ==
    /\ data = NoArray
    /\ gray = FALSE
    /\ dpc = "idle"
    /\ dret = "idle"

\* io.py:317-348  load_data calls load_psf with return_float=True and
\* use_3d = psf_fp.endswith(".npy")
DataCall ==
    /\ \/ /\ raw \in DataPsfImages
          /\ largs \in { a \in PsfArgs : a.return_float }
       \/ /\ raw \in DataPsfNpy
          /\ largs \in { [a EXCEPT !.use_3d = TRUE] : a \in { b \in PsfArgs : b.return_float } }
    /\ psf = NoArray
    /\ grayscale = FALSE
    /\ bg = NoBg
    /\ lpc = "start"
    /\ lret = "running"
    /\ pass = 1
    /\ first = NoArray
    /\ steps = << >>
    /\ data = NoArray
    /\ gray \in BOOLEAN
    /\ dpc = "load_psf"
    /\ dret = "running"

\* io.py:334  load_psf raised: load_data ends with its exception
PsfRaised ==
    /\ dpc = "load_psf"
    /\ lpc = "done"
    /\ lret # "ok"
    /\ dpc' = "done"
    /\ dret' = lret
    /\ UNCHANGED <<data, gray>>
    /\ UNCHANGED <<maskVars, intVars, psfVars, setVars, dlVars>>

\* io.py:351-352  load_image, np.array(data, dtype=dtype)
LoadMeasurement ==
    /\ dpc = "load_psf"
    /\ lpc = "done"
    /\ lret = "ok"
    /\ \E file \in DataFiles : data' = file
    /\ dpc' = "bg"
    /\ UNCHANGED <<gray, dret>>
    /\ UNCHANGED <<maskVars, intVars, psfVars, setVars, dlVars>>

\* io.py:354-360  subtract the background of the PSF, clip, reshape
ConditionData ==
    /\ dpc = "bg"
    /\ IF SubtractOk(data, bg)
       THEN /\ data' = DataTo4D(SubtractBg(data, bg))
            /\ dpc' = "resize"
            /\ dret' = dret
       ELSE /\ data' = data
            /\ dpc' = "done"
            /\ dret' = "ValueError"
    /\ UNCHANGED gray
    /\ UNCHANGED <<maskVars, intVars, psfVars, setVars, dlVars>>

\* io.py:362-364  resize to the shape of the PSF
ResizeData ==
    /\ dpc = "resize"
    /\ data' = ResizeToPsf(data, psf)
    /\ dpc' = "normalize"
    /\ UNCHANGED <<gray, dret>>
    /\ UNCHANGED <<maskVars, intVars, psfVars, setVars, dlVars>>

\* io.py:365  data /= np.linalg.norm(data.ravel())
NormalizeData ==
    /\ dpc = "normalize"
    /\ data' = DivideByNorm(data)
    /\ dpc' = "gray"
    /\ UNCHANGED <<gray, dret>>
    /\ UNCHANGED <<maskVars, intVars, psfVars, setVars, dlVars>>

\* io.py:367-390  gray, return
GrayReturn ==
    /\ dpc = "gray"
    /\ IF ~gray
       THEN /\ UNCHANGED <<psf, data>>
            /\ dret' = "ok"
       ELSE IF GrayOk(psf) /\ GrayOk(data)
       THEN /\ psf' = Rgb2Gray(psf)
            /\ data' = Rgb2Gray(data)
            /\ dret' = "ok"
       ELSE /\ UNCHANGED <<psf, data>>
            /\ dret' = "ValueError"
    /\ dpc' = "done"
    /\ UNCHANGED <<raw, largs, grayscale, bg, lpc, lret, pass, first, steps, gray>>
    /\ UNCHANGED <<maskVars, intVars, setVars, dlVars>>

----------------------------------------------------------------------------
(* set_programmable_mask *)

\* slm.py:32-36  the keys of SUPPORTED_DEVICE
SUPPORTED_DEVICE == {"adafruit", "nokia", "holoeye"}

\* slm.py:69-70  slm_devices[device]: SLM shape and monochrome flag; the shapes
\* stand for the devices' (128, 160), (84, 48) and (1280, 1920)
slm_devices ==
    [d \in SUPPORTED_DEVICE |->
        IF d = "adafruit" THEN [shape |-> <<1, 2>>, monochrome |-> FALSE]
        ELSE IF d = "nokia" THEN [shape |-> <<2, 1>>, monochrome |-> TRUE]
        ELSE [shape |-> <<2, 2>>, monochrome |-> TRUE]]

\* slm.py:69-71  expected_shape
SetExpectedShape(device) ==
    IF slm_devices[device].monochrome THEN slm_devices[device].shape
    ELSE <<3>> \o slm_devices[device].shape

\* no comparison of the shapes is made
AnyShape(shape, device) == TRUE

\* slm.py:72-74  pattern.shape == expected_shape
ShapeMatches(shape, device) == shape = SetExpectedShape(device)

\* the device names and pattern shapes the model draws
DeviceNames == SUPPORTED_DEVICE \cup {"other"}

PatternShapes ==
    { <<r, c>> : r \in 1..MaxSlm, c \in 1..MaxSlm }
    \cup { <<k, r, c>> : k \in {1, 3}, r \in 1..MaxSlm, c \in 1..MaxSlm }

SetIdle ==
    /\ sdevice = "none"
    /\ sshape = << >>
    /\ spc = "idle"
    /\ sret = "idle"
    /\ local_file = FALSE
    /\ written = FALSE
    /\ copied = FALSE
    /\ executed = FALSE

SetCall ==
    /\ sdevice \in DeviceNames
    /\ sshape \in PatternShapes
    /\ spc = "connect"
    /\ sret = "running"
    /\ local_file \in BOOLEAN
    /\ written = FALSE
    /\ copied = FALSE
    /\ executed = FALSE

\* slm.py:59  check_username_hostname: the SSH client connects, or raises
Connect ==
    /\ spc = "connect"
    /\ \/ /\ spc' = "device"
          /\ sret' = sret
       \/ /\ spc' = "done"
          /\ sret' = "ConnectionError"
    /\ UNCHANGED <<sdevice, sshape, local_file, written, copied, executed>>
    /\ UNCHANGED <<maskVars, intVars, psfVars, dataVars, dlVars>>

\* slm.py:63-66  assert device in SUPPORTED_DEVICE.keys()
CheckDevice ==
    /\ spc = "device"
    /\ IF sdevice \in SUPPORTED_DEVICE
       THEN spc' = "shape" /\ sret' = sret
       ELSE spc' = "done" /\ sret' = "AssertionError"
    /\ UNCHANGED <<sdevice, sshape, local_file, written, copied, executed>>
    /\ UNCHANGED <<maskVars, intVars, psfVars, dataVars, dlVars>>

\* slm.py:68-74  assert pattern.shape == expected_shape
CheckShape ==
    /\ spc = "shape"
    /\ IF ShapeMatches(sshape, sdevice)
       THEN spc' = "save" /\ sret' = sret
       ELSE spc' = "done" /\ sret' = "AssertionError"
    /\ UNCHANGED <<sdevice, sshape, local_file, written, copied, executed>>
    /\ UNCHANGED <<maskVars, intVars, psfVars, dataVars, dlVars>>

\* slm.py:76-79  np.save(local_path, pattern)
SavePattern ==
    /\ spc = "save"
    /\ local_file' = TRUE
    /\ written' = TRUE
    /\ spc' = "copy"
    /\ UNCHANGED <<sdevice, sshape, sret, copied, executed>>
    /\ UNCHANGED <<maskVars, intVars, psfVars, dataVars, dlVars>>

\* slm.py:81-85  os.system(scp ...): its exit status is not read
CopyPattern ==
    /\ spc = "copy"
    /\ copied' = TRUE
    /\ spc' = "exec"
    /\ UNCHANGED <<sdevice, sshape, sret, local_file, written, executed>>
    /\ UNCHANGED <<maskVars, intVars, psfVars, dataVars, dlVars>>

\* slm.py:91-98  client.exec_command(command), client.close(), os.remove(local_path)
RunCommand ==
    /\ spc = "exec"
    /\ executed' = TRUE
    /\ local_file' = FALSE
    /\ spc' = "done"
    /\ sret' = "ok"
    /\ UNCHANGED <<sdevice, sshape, written, copied>>
    /\ UNCHANGED <<maskVars, intVars, psfVars, dataVars, dlVars>>

SetNext ==
    \/ Connect \/ CheckDevice \/ CheckShape \/ SavePattern \/ CopyPattern \/ RunCommand

----------------------------------------------------------------------------
(* download_model *)

\* model_dict.py:21-38  the triples <<camera, dataset, model>> model_dict holds
\* (two of its eleven models)
model_dict ==
    { <<"digicam", "celeba_26k", m>> : m \in {"unrolled_admm10", "unet8M"} }

\* the names the model draws for each argument
CameraNames == {"digicam", "other"}
DatasetNames == {"celeba_26k", "other"}
ModelNames == {"unrolled_admm10", "unet8M", "other"}
Triples == CameraNames \X DatasetNames \X ModelNames

\* model_dict.py:54-61  the three membership tests
InModelDict(t) == t \in model_dict

\* model_dict.py:64  os.path.join(model_dir_path, camera, dataset, model)
ModelDir(t) == <<"models">> \o t

\* snapshot_download is invoked whether the directory exists or not
AlwaysDownload(dirs, t) == TRUE

\* model_dict.py:66  not os.path.exists(model_dir)
NeedsDownload(dirs, t) == ModelDir(t) \notin dirs

DlIdle ==
    /\ dl_call = << >>
    /\ dl_pc = "idle"
    /\ dl_ret = "idle"
    /\ dl_path = << >>
    /\ dl_dirs = {}
    /\ dl_count = << >>
    /\ dl_paths = << >>
    /\ dl_calls = 0

\* before the first call: any of the model directories may exist already
DlReady ==
    /\ dl_call = << >>
    /\ dl_pc = "ready"
    /\ dl_ret = "idle"
    /\ dl_path = << >>
    /\ dl_dirs \in SUBSET { ModelDir(t) : t \in model_dict }
    /\ dl_count = [t \in Triples |-> 0]
    /\ dl_paths = [t \in Triples |-> {}]
    /\ dl_calls = 0

\* model_dict.py:41  download_model(camera, dataset, model) is called
DlCall ==
    /\ dl_pc \in {"ready", "done"}
    /\ dl_calls < MaxCalls
    /\ dl_call' \in Triples
    /\ dl_pc' = "validate"
    /\ dl_ret' = "running"
    /\ dl_path' = << >>
    /\ dl_calls' = dl_calls + 1
    /\ UNCHANGED <<dl_dirs, dl_count, dl_paths>>
    /\ UNCHANGED <<maskVars, intVars, psfVars, dataVars, setVars>>

\* model_dict.py:54-61  raise ValueError for a name model_dict does not hold
DlValidate ==
    /\ dl_pc = "validate"
    /\ IF InModelDict(dl_call)
       THEN dl_pc' = "exists" /\ dl_ret' = dl_ret
       ELSE dl_pc' = "done" /\ dl_ret' = "ValueError"
    /\ UNCHANGED <<dl_call, dl_path, dl_dirs, dl_count, dl_paths, dl_calls>>
    /\ UNCHANGED <<maskVars, intVars, psfVars, dataVars, setVars>>

\* model_dict.py:63-66  if not os.path.exists(model_dir)
DlCheckExists ==
    /\ dl_pc = "exists"
    /\ dl_pc' = IF NeedsDownload(dl_dirs, dl_call) THEN "download" ELSE "return"
    /\ UNCHANGED <<dl_call, dl_ret, dl_path, dl_dirs, dl_count, dl_paths, dl_calls>>
    /\ UNCHANGED <<maskVars, intVars, psfVars, dataVars, setVars>>

\* model_dict.py:67  snapshot_download(repo_id, local_dir=model_dir): it fills the
\* directory, or raises, having created the directory or not.  dl_count counts
\* the invocations for a triple since its directory was last absent afterwards.
DlDownload ==
    /\ dl_pc = "download"
    /\ \/ /\ dl_dirs' = dl_dirs \cup {ModelDir(dl_call)}
          /\ dl_count' = [dl_count EXCEPT ![dl_call] = @ + 1]
          /\ dl_pc' = "return"
          /\ dl_ret' = dl_ret
       \/ /\ dl_dirs' = dl_dirs \cup {ModelDir(dl_call)}
          /\ dl_count' = [dl_count EXCEPT ![dl_call] = @ + 1]
          /\ dl_pc' = "done"
          /\ dl_ret' = "DownloadError"
       \/ /\ dl_dirs' = dl_dirs
          /\ dl_count' = [dl_count EXCEPT ![dl_call] =
                             IF ModelDir(dl_call) \in dl_dirs THEN @ + 1 ELSE 0]
          /\ dl_pc' = "done"
          /\ dl_ret' = "DownloadError"
    /\ UNCHANGED <<dl_call, dl_path, dl_paths, dl_calls>>
    /\ UNCHANGED <<maskVars, intVars, psfVars, dataVars, setVars>>

\* model_dict.py:69  return model_dir
DlReturn ==
    /\ dl_pc = "return"
    /\ dl_path' = ModelDir(dl_call)
    /\ dl_paths' = [dl_paths EXCEPT ![dl_call] = @ \cup {ModelDir(dl_call)}]
    /\ dl_pc' = "done"
    /\ dl_ret' = "ok"
    /\ UNCHANGED <<dl_call, dl_dirs, dl_count, dl_calls>>
    /\ UNCHANGED <<maskVars, intVars, psfVars, dataVars, setVars>>

\* between two calls a model directory is removed by the user
DlRemoveDir ==
    /\ dl_pc = "done"
    /\ \E t \in model_dict :
          /\ ModelDir(t) \in dl_dirs
          /\ dl_dirs' = dl_dirs \ {ModelDir(t)}
          /\ dl_count' = [dl_count EXCEPT ![t] = 0]
    /\ UNCHANGED <<dl_call, dl_pc, dl_ret, dl_path, dl_paths, dl_calls>>
    /\ UNCHANGED <<maskVars, intVars, psfVars, dataVars, setVars>>

DlNext ==
    \/ DlCall \/ DlValidate \/ DlCheckExists \/ DlDownload \/ DlReturn \/ DlRemoveDir

PsfNext ==
    \/ CastReshape \/ SubtractBackground \/ ResizePsf \/ CollapseChannels
    \/ NormalizeReturn \/ LoadAgain

PsfInit == PsfCall /\ MaskIdle /\ IntIdle /\ DataIdle /\ SetIdle /\ DlIdle

SpecPsf == PsfInit /\ [][PsfNext]_vars

DataNext ==
    \/ CastReshape \/ SubtractBackground \/ ResizePsf \/ CollapseChannels
    \/ NormalizeReturn
    \/ PsfRaised \/ LoadMeasurement \/ ConditionData \/ ResizeData \/ NormalizeData
    \/ GrayReturn

DataInit == DataCall /\ MaskIdle /\ IntIdle /\ SetIdle /\ DlIdle

SpecData == DataInit /\ [][DataNext]_vars

SetInit == SetCall /\ MaskIdle /\ IntIdle /\ PsfIdle /\ DataIdle /\ DlIdle

SpecSet == SetInit /\ [][SetNext]_vars

DlInit == DlReady /\ MaskIdle /\ IntIdle /\ PsfIdle /\ DataIdle /\ SetIdle

SpecDownload == DlInit /\ [][DlNext]_vars

MaskInit == MaskArgs /\ IntIdle /\ PsfIdle /\ DataIdle /\ SetIdle /\ DlIdle

SpecMask == MaskInit /\ [][MaskNext]_vars

IntInit == IntArgs /\ MaskIdle /\ PsfIdle /\ DataIdle /\ SetIdle /\ DlIdle

SpecIntensity == IntInit /\ [][IntNext]_vars

----------------------------------------------------------------------------
(* Properties of get_programmable_mask *)

MaskReturned == mpc = "done" /\ mret.status = "ok"

MaskPixels == { <<ch, r, c>> : ch \in DOMAIN mask, r \in 0..(sensor.resolution[1] - 1),
                               c \in 0..(sensor.resolution[2] - 1) }

\* the spatial shape of the mask is sensor.resolution
MaskShapeIsResolution ==
    \A ch \in DOMAIN mask :
        /\ DOMAIN mask[ch] = 0..(sensor.resolution[1] - 1)
        /\ \A r \in DOMAIN mask[ch] : DOMAIN mask[ch][r] = 0..(sensor.resolution[2] - 1)

\* C1: every returned mask is non-negative, each value k/255 with k in 0..255,
\* and its spatial shape is sensor.resolution.
C1_MaskQuantized ==
    MaskReturned =>
        /\ ~mret.nan
        /\ MaskShapeIsResolution
        /\ \A ch \in DOMAIN mask : \A r \in DOMAIN mask[ch] : \A c \in DOMAIN mask[ch][r] :
               mask[ch][r][c] \in 0..Levels

\* the cells of the pattern whose value is not zero
ActiveCells == { k \in 0..(Prod(NActive(vals)) - 1) : SlmValsFlat(vals, k) # 0 }

\* C5: for a pattern with exactly one non-zero cell and no rotation, every pixel
\* outside that cell's computed footprint is zero in the returned mask.
C5_SingleCellFootprint ==
    (MaskReturned /\ rotate = "None" /\ Cardinality(ActiveCells) = 1) =>
        LET k == CHOOSE x \in ActiveCells : TRUE
        IN  /\ ~mret.nan
            /\ \A px \in MaskPixels :
                  mask[px[1]][px[2]][px[3]] # 0 =>
                     /\ px[2] \in FootRows(slm_param, sensor, vals, k)
                     /\ px[3] \in FootCols(slm_param, sensor, vals, k)

IsScenarioA ==
    vals = ScenarioAPattern /\ sensor = ScenarioASensor /\ slm_param = ScenarioADevice

\* C6: in Scenario A the call returns a mask whose pixels at level 255 are exactly
\* rows 0..7 and columns 0..7, every other pixel zero.
C6_ScenarioABlock ==
    (IsScenarioA /\ mpc = "done") =>
        /\ mret.status = "ok"
        /\ ~mret.nan
        /\ \A r \in 0..63 : \A c \in 0..63 :
              mask[0][r][c] = IF r \in 0..7 /\ c \in 0..7 THEN Levels ELSE 0

\* C9: a pattern whose shape differs from the shape the device expects is rejected:
\* no mask is returned for it.
C9_ShapeMismatchRejected ==
    (mpc = "done" /\ vals.shape # ExpectedShape(slm_param)) => mret.status # "ok"

\* C10: a cell footprint of zero pixels in height or width is rejected: no mask is
\* returned.
C10_ZeroFootprintRejected ==
    (mpc = "done"
       /\ (HeightPixel(slm_param, sensor) = 0 \/ WidthPixel(slm_param, sensor) = 0))
    => mret.status # "ok"

----------------------------------------------------------------------------
(* Properties of get_intensity_psf *)

IntReturned == ipc = "done" /\ iret = "ok"

\* C7: the returned intensity is non-negative in every mode; with waveprop False it
\* is the element-wise squared magnitude of the mask; the caller's mask is unchanged.
C7_IntensityNonNegative ==
    IntReturned =>
        /\ \A ch \in DOMAIN psf_in : \A px \in DOMAIN psf_in[ch] : psf_in[ch][px] >= 0
        /\ ~waveprop =>
              /\ DOMAIN psf_in = DOMAIN imask0
              /\ \A ch \in DOMAIN psf_in :
                    /\ DOMAIN psf_in[ch] = DOMAIN imask0[ch]
                    /\ \A px \in DOMAIN psf_in[ch] :
                          psf_in[ch][px] = imask0[ch][px] * imask0[ch][px]
        /\ imask = imask0

\* a bypassed call on a mask holding a negative value has returned
C7_Witness ==
    /\ IntReturned
    /\ ~waveprop
    /\ \E ch \in DOMAIN imask0 : \E px \in DOMAIN imask0[ch] : imask0[ch][px] < 0

----------------------------------------------------------------------------
(* Properties of load_psf *)

PsfReturned == lpc = "done" /\ lret = "ok"

\* the Euclidean norm of the flattened array is 1: sum (x / (d sqrt(r)))^2 = 1
UnitNorm(a) == ~a.nan /\ SumSq(a) = a.den * a.den * a.rad

\* every element is a number >= 0
NonNegative(a) == ~a.nan /\ \A x \in DOMAIN a.num : a.num[x] >= 0

\* two arrays hold the same values: x / (d sqrt(r)) = y / (e sqrt(q))
SameValues(a, b) ==
    /\ a.shape = b.shape
    /\ a.nan = b.nan
    /\ \A x \in DOMAIN a.num :
          /\ a.num[x] * b.num[x] >= 0
          /\ a.num[x] * a.num[x] * b.den * b.den * b.rad
               = b.num[x] * b.num[x] * a.den * a.den * a.rad

\* the array of a call after background subtraction and resizing
Resized(file, args) ==
    LET a == SubtractAndClip(To4D(file, args.use_3d), IsGrayscale(file, args.use_3d),
                             args.bg_pix)
    IN  AreaResize(a, ResizedDim(a.shape[2], args.downsample),
                   ResizedDim(a.shape[3], args.downsample))

NonZeroEnergy(file, args) == ~Resized(file, args).nan /\ SumSq(Resized(file, args)) > 0

\* C2: a PSF returned as float whose energy after background subtraction and
\* resizing is not zero has Euclidean norm 1.
C2_UnitNorm ==
    (PsfReturned /\ largs.return_float /\ NonZeroEnergy(raw, largs)) => UnitNorm(psf)

\* a raw image, downsampled by 2, with energy left, has been returned as float
C2_Witness ==
    /\ PsfReturned /\ pass = 1 /\ largs.return_float /\ largs.downsample = 2
    /\ largs.bg_pix # << >>
    /\ NonZeroEnergy(raw, largs)
    /\ \E x \in DOMAIN psf.num : psf.num[x] > 1

\* C3: with a background region given, every element of the returned PSF is >= 0.
C3_NonNegative ==
    (PsfReturned /\ pass = 1 /\ largs.bg_pix # << >>) => NonNegative(psf)

\* the corner region of the second call is not empty and the PSF is zero there
CornerIsZero(a, bg_pix) ==
    LET reg == { x \in IdxSet(a.shape) :
                    /\ x[2] \in PySlice(bg_pix[1], bg_pix[2], a.shape[2])
                    /\ x[3] \in PySlice(bg_pix[1], bg_pix[2], a.shape[3]) }
    IN  reg # {} /\ \A x \in reg : a.num[x] = 0

BgIsZero(b) == ~b.nan /\ \A k \in DOMAIN b.num : b.num[k] = 0

\* C8: conditioning (background over the corner region, clip, resize by 1,
\* normalize) a PSF that has unit norm and zero background in the corner region
\* returns the same PSF and a zero background.
C8_Idempotent ==
    (pass = 2 /\ lpc = "done" /\ largs.bg_pix # << >> /\ UnitNorm(first)
       /\ CornerIsZero(first, largs.bg_pix))
    => /\ lret = "ok"
       /\ SameValues(psf, first)
       /\ BgIsZero(bg)

\* a second call on a PSF with a zero corner and energy elsewhere has returned
C8_Witness ==
    /\ pass = 2 /\ lpc = "done" /\ largs.bg_pix # << >> /\ UnitNorm(first)
    /\ CornerIsZero(first, largs.bg_pix)
    /\ first.shape[4] = 3
    /\ \E x \in DOMAIN first.num : \E y \in DOMAIN first.num :
          first.num[x] > 0 /\ first.num[y] > first.num[x]

----------------------------------------------------------------------------
(* Properties of load_data *)

DataReturned == dpc = "done" /\ dret = "ok"

\* C4: the measurement load_data returns has the shape of the PSF it returns, and
\* both have Euclidean norm 1, whatever the files and the flags.
C4_SameShapeUnitNorm ==
    DataReturned => /\ data.shape = psf.shape
                    /\ UnitNorm(psf)
                    /\ UnitNorm(data)

----------------------------------------------------------------------------
(* Further properties of get_intensity_psf *)

\* C11: whenever the number of wavelengths differs from the number of mask
\* channels the call ends with the mismatch error, with waveprop or without, and
\* no channel has been propagated by then.
C11_MismatchRaises ==
    (ipc = "done" /\ ~WavelengthsMatch(n_wv, imask0))
    => /\ iret = "AssertionError"
       /\ wv_i = 0
       /\ psf_in = << >>

----------------------------------------------------------------------------
(* Further properties of load_psf and load_data *)

\* the conditioning invariants: finite values, all >= 0, Euclidean norm 1
Conditioned(a) == NonNegative(a) /\ UnitNorm(a)

\* C12: whatever the files, a call of load_data (and of load_psf within it) that
\* returns, returns a PSF and a measurement that satisfy the conditioning
\* invariants; an input it cannot condition ends in an error.
C12_Atomic ==
    (DataReturned /\ ~gray) => Conditioned(psf) /\ Conditioned(data)

----------------------------------------------------------------------------
(* Properties of set_programmable_mask *)

\* the pattern is valid for the device: the device is supported and the pattern
\* has the SLM's shape, with 3 channels in front when the device is not monochrome
ValidPattern ==
    /\ sdevice \in {"adafruit", "nokia", "holoeye"}
    /\ sshape = IF slm_devices[sdevice].monochrome THEN slm_devices[sdevice].shape
                ELSE <<3>> \o slm_devices[sdevice].shape

\* C13: the pattern file is written, copied and the remote command executed
\* only for a valid pattern, in that order; a call that ends in a validation
\* failure has done none of the three.
C13_ValidatedBeforeSent ==
    /\ (written \/ copied \/ executed) => ValidPattern
    /\ copied => written
    /\ executed => copied
    /\ (spc = "done" /\ sret = "AssertionError") => ~(written \/ copied \/ executed)
    /\ (spc = "done" /\ ~ValidPattern) => sret # "ok"

\* a three-channel pattern has been sent to the colour device
C13_Witness ==
    /\ spc = "done" /\ sret = "ok"
    /\ written /\ copied /\ executed
    /\ sdevice = "adafruit" /\ Len(sshape) = 3

----------------------------------------------------------------------------
(* Order of the conditioning steps of load_psf *)

StepOrder == <<"cast", "bg", "resize", "collapse", "normalize">>

IsPrefix(s, t) == Len(s) <= Len(t) /\ \A k \in 1..Len(s) : s[k] = t[k]

\* C14: the steps of load_psf are performed in the order cast and reshape,
\* background (on the array not yet resized) with subtraction and clip, resize,
\* channel collapse, normalization; a call that returns has performed them all
\* and returns what the last one produced.
C14_StepOrder ==
    /\ IsPrefix(steps, StepOrder)
    /\ bg.kind # "none" =>
          bg = Background(To4D(raw, largs.use_3d), IsGrayscale(raw, largs.use_3d),
                          largs.bg_pix)
    /\ PsfReturned =>
          /\ steps = StepOrder
          /\ psf = Normalize(Collapse(Resized(raw, largs), largs.single_psf),
                             largs.return_float, raw)

\* a raw PSF with a background above zero, downsampled by 2, has been returned
C14_Witness ==
    /\ PsfReturned /\ pass = 1
    /\ largs.bg_pix # << >> /\ largs.downsample = 2 /\ largs.return_float
    /\ ~bg.nan /\ bg.num[1] > 0
    /\ ~psf.nan

----------------------------------------------------------------------------
(* Channel collapse of load_psf *)

\* the sum over the channels of a at the pixel of x
ChannelSum(a, x) ==
    SumOver([ch \in AllChannels(a) |-> a.num[<<x[1], x[2], x[3], ch>>]], AllChannels(a))

\* C15: with single_psf on a PSF of several channels, the PSF after the collapse
\* has as many channels as before and each of them is the sum of the channels;
\* on a PSF of one channel the collapse leaves the PSF as it is, with no error.
C15_CollapseReplicated ==
    (lpc = "normalize" /\ pass = 1 /\ largs.single_psf)
    => LET a == Resized(raw, largs)
       IN  IF a.shape[4] > 1
           THEN /\ psf.shape = a.shape
                /\ psf.den = a.den /\ psf.rad = a.rad /\ psf.nan = a.nan
                /\ \A x \in IdxSet(a.shape) : psf.num[x] = ChannelSum(a, x)
           ELSE psf = a /\ lret = "running"

----------------------------------------------------------------------------
(* Further properties of get_programmable_mask *)

\* the computed footprint of cell idx is not empty and not wholly inside the grid
PastBorder(p, s, v, idx) ==
    /\ HeightPixel(p, s) >= 1 /\ WidthPixel(p, s) >= 1
    /\ \/ ~(FootRows(p, s, v, idx) \subseteq 0..(s.resolution[1] - 1))
       \/ ~(FootCols(p, s, v, idx) \subseteq 0..(s.resolution[2] - 1))

\* C16: the iteration of a cell whose footprint extends past a border of the
\* grid raises nothing, writes the cell's value to the pixels of the footprint
\* that lie inside the grid and leaves every other pixel as it was.
C16_BorderClipped ==
    [][(/\ mpc = "loop"
        /\ i < Prod(NActive(vals))
        /\ Broadcastable(NFilterChannels(slm_param), NColorFilter(slm_param))
        /\ PastBorder(slm_param, sensor, vals, i))
       => /\ mret'.status = "running"
          /\ i' = i + 1
          /\ \A px \in MaskPixels :
                mask'[px[1]][px[2]][px[3]] =
                   IF /\ px[2] \in FootRows(slm_param, sensor, vals, i)
                      /\ px[3] \in FootCols(slm_param, sensor, vals, i)
                   THEN RectValue(slm_param, flipud, vals, i, px[1])
                   ELSE mask[px[1]][px[2]][px[3]]]_vars

----------------------------------------------------------------------------
(* The background load_psf returns and load_data subtracts *)

\* the number of values of a background
BgValues(b) == IF b.kind = "scalar" THEN 1 ELSE Len(b.num)

\* the number of colour channels of an image file as load_image returns it
FileChannels(f) == IF Len(f.shape) = 3 THEN f.shape[3] ELSE 1

\* C17: the background load_psf returns has one value per colour channel of the
\* PSF, the mean of the channel over the corner region of the array as read, or
\* zero when bg_pix is None; load_data's subtraction of it from a measurement
\* with as many channels as the PSF raises nothing.
C17_BackgroundPerChannel ==
    /\ (lpc = "done" /\ lret = "ok") =>
          LET a == To4D(raw, largs.use_3d)
          IN  /\ BgValues(bg) = a.shape[4]
              /\ \A k \in 1..BgValues(bg) :
                    IF largs.bg_pix = << >> THEN bg.num[k] = 0
                    ELSE bg.nan \/
                         bg.num[k] * Cardinality(BgRegion(a, largs.bg_pix, {k - 1}))
                            = bg.den * SumOver(a.num, BgRegion(a, largs.bg_pix, {k - 1}))
    /\ (dpc = "done" /\ Len(data.shape) \in {2, 3}
          /\ FileChannels(data) = To4D(raw, largs.use_3d).shape[4])
       => dret # "ValueError"

\* the weight of cell idx in channel ch: the entry of the colour-filter table,
\* its rows reversed when flipud is set, tiled over the cells
FilterWeight(p, fl, v, idx, ch) ==
    LET L   == Len(p.color_filter)
        row == (idx \div NActive(v)[2]) % L
        col == (idx % NActive(v)[2]) % Len(p.color_filter[1])
        w   == p.color_filter[(IF fl THEN L - 1 - row ELSE row) + 1][col + 1]
    IN  IF Len(w) = 1 THEN w[1] ELSE w[ch + 1]

\* the iteration of the loop for cell i writes the cell's value times its
\* colour-filter weight to every pixel it writes
WritesWeighted ==
    (mpc = "loop" /\ i' = i + 1)
    => \A px \in MaskPixels :
          (px[2] \in SliceRows(slm_param, sensor, vals, i)
             /\ px[3] \in SliceCols(slm_param, sensor, vals, i))
          => mask'[px[1]][px[2]][px[3]]
               = SlmValsFlat(vals, i) * FilterWeight(slm_param, flipud, vals, i, px[1])

\* C18: for a device without a colour-filter table the call does not fail for
\* the lack of it; for a colour-filtered device every cell is written as its
\* value times its colour-filter weight, the table flipped when flipud is set.
C18_MonochromeAndFilter ==
    /\ []((mpc = "done" /\ ~slm_param.has_cf) => mret.status # "KeyError")
    /\ [][WritesWeighted]_vars

\* the colour-filtered half alone
C18_FilterHalf == [][WritesWeighted]_vars

\* the cells processed so far whose assignment covers pixel <<r, c>>
Covering(r, c) ==
    { k \in 0..(i - 1) : /\ r \in SliceRows(slm_param, sensor, vals, k)
                         /\ c \in SliceCols(slm_param, sensor, vals, k) }

\* C19: during the loop every pixel holds the value written by the last of the
\* cells processed so far that cover it (0 when none does), however many cover
\* it; a cell's assignment raises only for a footprint that leaves the grid or
\* a filter whose channels do not fit the mask, never for an overlap.
C19_LastWriteWins ==
    /\ mpc = "loop" =>
          \A px \in MaskPixels :
             mask[px[1]][px[2]][px[3]] =
                IF Covering(px[2], px[3]) = {} THEN 0
                ELSE RectValue(slm_param, flipud, vals,
                               SetMax(Covering(px[2], px[3])), px[1])
    /\ (mpc = "done" /\ mret.status = "ValueError") =>
          \/ PastBorder(slm_param, sensor, vals, i)
          \/ ~Broadcastable(NFilterChannels(slm_param), NColorFilter(slm_param))

\* two processed cells cover one pixel, the earlier with a value above zero and
\* the later with another value
C19_Witness ==
    /\ mpc = "loop"
    /\ \E px \in MaskPixels :
          \E k1 \in Covering(px[2], px[3]) : \E k2 \in Covering(px[2], px[3]) :
             /\ k1 < k2
             /\ k2 = SetMax(Covering(px[2], px[3]))
             /\ RectValue(slm_param, flipud, vals, k1, px[1]) > 0
             /\ RectValue(slm_param, flipud, vals, k2, px[1])
                  # RectValue(slm_param, flipud, vals, k1, px[1])

\* C20: a call naming a triple that model_dict does not hold ends in ValueError
\* with the directories and the download counts as they were; snapshot_download
\* is invoked only for a directory that does not exist, so no triple is
\* downloaded twice while its directory remains; and the successful calls for
\* a triple all return one path, the directory of that triple.
C20_ValidatedCache ==
    /\ [](\A t \in Triples :
             /\ dl_count[t] <= 1
             /\ dl_paths[t] \subseteq {ModelDir(t)})
    /\ [][(dl_pc = "validate" /\ ~InModelDict(dl_call))
             => /\ dl_ret' = "ValueError"
                /\ dl_pc' = "done"
                /\ dl_dirs' = dl_dirs
                /\ dl_count' = dl_count]_vars
    /\ [][(\E t \in Triples : dl_count'[t] > dl_count[t])
             => /\ InModelDict(dl_call)
                /\ ModelDir(dl_call) \notin dl_dirs]_vars

\* a second call for a triple that an earlier call already returned is about
\* to return, the triple having been downloaded once for the directory in place
C20_Witness ==
    /\ dl_pc = "return"
    /\ dl_calls = 2
    /\ dl_paths[dl_call] # {}
    /\ dl_count[dl_call] = 1
    /\ ModelDir(dl_call) \in dl_dirs

====
